---- MODULE Spec2Model ----
(***************************************************************************)
(* The session/credential lifecycle of the gym member-lookup server        *)
(* (server/index.js): POST /api/login, POST /api/refresh, POST /api/logout *)
(* and the protected GET /api/data with its one-slot sheet cache.          *)
(*                                                                         *)
(* Time is Date.now() in milliseconds, counted from the start of the       *)
(* process.  Each synchronous route handler is one atomic step taken at    *)
(* one instant; GET /api/data is two steps, split at its only await (the   *)
(* upstream fetch).  The requests modelled are those that reach a route    *)
(* handler, i.e. that the helmet/cors/rate-limit middleware let through.   *)
(*                                                                         *)
(* SpecClient is the browser client (App.js) in its two variants: the one  *)
(* that keeps the session in HttpOnly cookies (client/src/App.js) and the  *)
(* older one that keeps tokens in localStorage.  A client step is one run  *)
(* of JavaScript from an event, a fetch answer or a timeout to the next    *)
(* await of fetch or to the handler's end.  The server is the client's     *)
(* environment there: every fetch may be answered 200, 401, 500 or fail on *)
(* the network, and a 200 answer carries a parseable JSON body.  A timeout *)
(* fires when its delay has elapsed; the delay is recorded, not clocked.   *)
(***************************************************************************)
EXTENDS Integers, FiniteSets, Sequences, TLC

(* ------------------------------ bounds -------------------------------- *)
\* steps explored: requests handled, upstream answers and clock advances
MaxSteps == 6

\* client steps explored (handler starts, answers received, timer firings,
\* keystrokes), for the cookie client and for the token-storage client
MaxCookieSteps == 7
MaxTokenSteps == 6

(* ------------------------- program constants -------------------------- *)
\* ACCESS_EXPIRES = "15m", in seconds as jsonwebtoken reads it
ACCESS_EXPIRES == 900
REFRESH_EXPIRES_DAYS == 7
SHEET_CACHE_TTL_MS == 30000
JWT_SECRET == "dev-secret"
MS_PER_SEC == 1000

RefreshLifetimeMs == REFRESH_EXPIRES_DAYS * 24 * 60 * 60 * 1000
\* the clock stops short of a second refresh lifetime
MaxNow == RefreshLifetimeMs + 2 * ACCESS_EXPIRES * MS_PER_SEC
\* the steps by which the clock advances: just short of a second, one second
\* short of the access lifetime, a whole refresh lifetime
Deltas == {MS_PER_SEC - 1, (ACCESS_EXPIRES - 1) * MS_PER_SEC, RefreshLifetimeMs}

(* ------------------------------ values -------------------------------- *)
\* a field that is undefined in the request body / environment
Undefined == "<undefined>"
\* JavaScript's !v for the values a credential field takes
Falsy(v) == v \in {Undefined, ""}

Usernames == {"admin", "eve", Undefined}
Passwords == {"secret", "guess", ""}

\* refresh credentials are numbered in the order generateRefreshToken makes
\* them; NoRt is an absent (or empty) refresh_token cookie, ForgedRt a string
\* that generateRefreshToken never returns
NoRt == 0
ForgedRt == -1

\* an absent access_token cookie
NoToken == [username |-> "", iat |-> 0, exp |-> 0, key |-> ""]
\* a token an outsider signs with a key of their own, with an expiry the
\* clock never reaches
ForgedToken == [username |-> "admin", iat |-> 0, exp |-> (MaxNow \div MS_PER_SEC) + 1,
                key |-> "attacker-key"]

VARIABLES
  now,                \* Date.now()
  steps,              \* steps taken so far
  USERNAME, PASSWORD, \* process.env.LOGIN_USER / LOGIN_PASS
  sheetsConfigured,   \* SHEET_ID && SHEET_NAME && API_KEY
  refreshTokenStore,  \* Map refreshToken -> {username, expiresAt}
  nextRt,             \* number of the next generated refresh credential
  cachedSheet, cacheExpires,
  fetching,           \* GET /api/data requests awaiting the upstream fetch
  issuedAccess,       \* history: every access token signed, with its origin
  deleted,            \* history: refresh credentials removed from the store, and by what
  req, res,           \* the request handled by the last step and its response
  prev                \* history: the server state that request was handled in

\* the state of the browser client (client/src/App.js)
VARIABLES
  variant,            \* which App.js runs: "cookie" (HttpOnly cookies) or "token" (localStorage)
  mounted,            \* the mount effect has run
  isLoggedIn, data, member, searchTerm,   \* useState
  expiryTimerRef,     \* expiryTimerRef.current: a timer id, 0 for null
  debounceRef,        \* the pending search debounce with the render it closes over, or NoDebounce
  timers,             \* the auto-logout timeouts created so far: pending, fired or cancelled
  localStorage,       \* access_token, refresh_token, access_expiry
  ops,                \* async handlers suspended at an await of fetch
  nextId,             \* the next timer / handler id
  csteps,             \* client steps taken so far
  ev                  \* the client step just taken: handler, answer received, timer armed or fired

vars == <<now, steps, USERNAME, PASSWORD, sheetsConfigured, refreshTokenStore, nextRt,
          cachedSheet, cacheExpires, fetching, issuedAccess, deleted, req, res, prev,
          variant, mounted, isLoggedIn, data, member, searchTerm, expiryTimerRef,
          debounceRef, timers, localStorage, ops, nextId, csteps, ev>>

config == <<USERNAME, PASSWORD, sheetsConfigured>>
cache == <<cachedSheet, cacheExpires>>

client == <<variant, mounted, isLoggedIn, data, member, searchTerm, expiryTimerRef,
            debounceRef, timers, localStorage, ops, nextId, csteps, ev>>
server == <<now, steps, USERNAME, PASSWORD, sheetsConfigured, refreshTokenStore, nextRt,
            cachedSheet, cacheExpires, fetching, issuedAccess, deleted, req, res, prev>>

(* --------------------------- pure helpers ----------------------------- *)
\* Math.floor(Date.now() / 1000)
NowSec(t) == t \div MS_PER_SEC

\* faulty variant: the lifetime "15m" written as the bare number 15, which
\* jsonwebtoken reads as seconds
signAccessToken_bareNumber(username, t) ==
  [username |-> username, iat |-> NowSec(t), exp |-> NowSec(t) + 15, key |-> JWT_SECRET]

\* jwt.sign(payload, JWT_SECRET, {expiresIn: ACCESS_EXPIRES}) at time t
signAccessToken(username, t) ==
  [username |-> username, iat |-> NowSec(t), exp |-> NowSec(t) + ACCESS_EXPIRES, key |-> JWT_SECRET]

\* faulty variant: verification with ignoreExpiration
jwtVerify_ignoreExpiration(token, t) == token.key = JWT_SECRET

\* jwt.verify(token, JWT_SECRET) at time t: the signature is the server's and
\* the clock (in whole seconds) has not reached exp
jwtVerify(token, t) == token.key = JWT_SECRET /\ NowSec(t) < token.exp

\* decoded.exp - Math.floor(Date.now() / 1000), or 15 minutes without exp
expiresInSec(token, t) == IF token.exp # 0 THEN token.exp - NowSec(t) ELSE 60 * 15

\* faulty variant: only the username is compared
credentialsMatch_usernameOnly(username, password) == username = USERNAME

\* faulty variant: only the password is compared
credentialsMatch_passwordOnly(username, password) == password = PASSWORD

\* username === USERNAME && password === PASSWORD
credentialsMatch(username, password) == username = USERNAME /\ password = PASSWORD

\* faulty variant: the lifetime alone, without Date.now()
refreshExpiresAt_relative(t) == RefreshLifetimeMs

\* Date.now() + REFRESH_EXPIRES_DAYS * 24 * 60 * 60 * 1000
refreshExpiresAt(t) == t + RefreshLifetimeMs

\* faulty variant: the expiry compared with the clock in seconds
refreshExpired_seconds(record, t) == record.expiresAt < NowSec(t)

\* faulty variant: the last instant of the lifetime counted as expired
refreshExpired_orEqual(record, t) == record.expiresAt <= t

\* record.expiresAt < Date.now()
refreshExpired(record, t) == record.expiresAt < t

\* faulty variant: the absent cookie is not looked for
missing_never(rt) == FALSE

\* !rt: the request carries no refresh_token cookie
missing(rt) == rt = NoRt

\* refreshTokenStore.get(rt) is undefined
notFound(rt) == rt \notin DOMAIN refreshTokenStore

\* faulty variant: the delete is lost
storeDelete_lost(store, rt) == store

\* faulty variant: refreshTokenStore.clear() in place of delete(rt)
storeDelete_clear(store, rt) == <<>>

\* refreshTokenStore.delete(rt)
storeDelete(store, rt) == [k \in (DOMAIN store) \ {rt} |-> store[k]]

\* refreshTokenStore.set(rt, record)
storeSet(store, rt, record) == [k \in (DOMAIN store) \cup {rt} |-> IF k = rt THEN record ELSE store[k]]

\* cachedSheet && cacheExpires > now
cacheHit(t) == cachedSheet # "null" /\ cacheExpires > t

\* history: rt left the store, by "logout" or by the "expired" path of refresh
noteDeleted(rt, cause) == [k \in (DOMAIN deleted) \cup {rt} |-> IF k = rt THEN cause ELSE deleted[k]]

Snapshot == [store |-> refreshTokenStore, deleted |-> deleted, nextRt |-> nextRt,
             fetching |-> fetching, cachedSheet |-> cachedSheet, cacheExpires |-> cacheExpires,
             issued |-> {i.token : i \in issuedAccess}]

Request(op, username, password, rt, token) ==
  [op |-> op, username |-> username, password |-> password, rt |-> rt, token |-> token, at |-> now]

Response(status, message, access, refresh, expiresIn, cleared, body, cacheRead) ==
  [status |-> status, message |-> message, access |-> access, refresh |-> refresh,
   expiresIn |-> expiresIn, cleared |-> cleared, data |-> body, cacheRead |-> cacheRead]

Failure(status, message) == Response(status, message, NoToken, NoRt, -1, FALSE, "none", FALSE)

\* faulty variant: the message names the field that did not match
loginFailure_telling(username, password) ==
  IF username # USERNAME THEN Failure(401, "Unknown user") ELSE Failure(401, "Wrong password")

\* res.status(401).json({message: "Invalid credentials"}): no cookie is set,
\* and neither field takes part in the answer
loginFailure(username, password) == Failure(401, "Invalid credentials")

\* no request was handled by the last step
NoRequest == [op |-> "none", username |-> Undefined, password |-> Undefined, rt |-> NoRt,
              token |-> NoToken, at |-> 0]
NoResponse == Failure(0, "")

\* no handler suspended, no answer received, no timer, no debounce
NoOp == [id |-> 0, kind |-> "none", pc |-> "done", path |-> "", trail |-> <<>>]
NoAnswer == [status |-> "none", expiresIn |-> 0, body |-> "none"]
NoTimer == [id |-> 0, by |-> "none", op |-> 0, expiresIn |-> 0, delay |-> 0, state |-> "none"]
NoDebounce == [searchTerm |-> "<none>", data |-> "empty"]
NoEvent == [what |-> "none", op |-> NoOp, answer |-> NoAnswer, timer |-> NoTimer]
EmptyStorage == [access_token |-> "null", refresh_token |-> "null", access_expiry |-> "null"]

\* the component before its mount effect: useState / useRef initial values
Unmounted ==
  /\ mounted = FALSE
  /\ isLoggedIn = FALSE
  /\ data = "empty"
  /\ member = "empty"
  /\ searchTerm = ""
  /\ expiryTimerRef = 0
  /\ debounceRef = NoDebounce
  /\ timers = {}
  /\ ops = {}
  /\ nextId = 1
  /\ csteps = 0
  /\ ev = NoEvent

\* the server is studied on its own: no page is opened
ClientNotStarted ==
  /\ Unmounted
  /\ variant = "cookie"
  /\ localStorage = EmptyStorage

(* ------------------------------- Init --------------------------------- *)
ServerStarted ==
  /\ now = 0
  /\ steps = 0
  /\ USERNAME \in {"admin", Undefined}
  /\ PASSWORD \in {"secret", Undefined}
  /\ sheetsConfigured \in BOOLEAN
  /\ refreshTokenStore = <<>>
  /\ nextRt = 1
  /\ cachedSheet = "null"
  /\ cacheExpires = 0
  /\ fetching = {}
  /\ issuedAccess = {}
  /\ deleted = <<>>
  /\ req = NoRequest
  /\ res = NoResponse
  /\ prev = Snapshot

Init == ServerStarted /\ ClientNotStarted

(* ------------------------------ actions ------------------------------- *)
\* every step counts against the exploration bound
CountStep == steps < MaxSteps /\ steps' = steps + 1

\* the clock advances between requests
Tick ==
  \E d \in Deltas :
    /\ CountStep
    /\ now + d <= MaxNow
    /\ now' = now + d
    /\ req' = NoRequest
    /\ res' = NoResponse
    /\ prev' = Snapshot
    /\ UNCHANGED <<config, client, refreshTokenStore, nextRt, cache, fetching, issuedAccess, deleted>>

\* POST /api/login
Login ==
  \E username \in Usernames, password \in Passwords :
    /\ CountStep
    /\ req' = Request("login", username, password, NoRt, NoToken)
    /\ prev' = Snapshot
    /\ IF Falsy(username) \/ Falsy(password)
       THEN /\ res' = Failure(400, "username/password required")
            /\ UNCHANGED <<refreshTokenStore, nextRt, issuedAccess>>
       ELSE IF credentialsMatch(username, password)
       THEN LET accessToken == signAccessToken(username, now)
                refreshToken == nextRt
            IN /\ refreshTokenStore' = storeSet(refreshTokenStore, refreshToken,
                      [username |-> username, expiresAt |-> refreshExpiresAt(now)])
               /\ nextRt' = nextRt + 1
               /\ issuedAccess' = issuedAccess \cup
                      {[token |-> accessToken, by |-> "login", rt |-> refreshToken]}
               /\ res' = Response(200, "", accessToken, refreshToken,
                                  expiresInSec(accessToken, now), FALSE, "none", FALSE)
       ELSE /\ res' = loginFailure(username, password)
            /\ UNCHANGED <<refreshTokenStore, nextRt, issuedAccess>>
    /\ UNCHANGED <<now, config, client, cache, fetching, deleted>>

\* the refresh_token cookies a request can carry: none, a string never
\* generated, any credential generated so far, and the one generated next
PresentableRts == (1..nextRt) \cup {NoRt, ForgedRt}

\* POST /api/refresh
Refresh ==
  \E rt \in PresentableRts :
    /\ CountStep
    /\ req' = Request("refresh", Undefined, Undefined, rt, NoToken)
    /\ prev' = Snapshot
    /\ IF missing(rt)
       THEN /\ res' = Failure(401, "Missing refresh token")
            /\ UNCHANGED <<refreshTokenStore, issuedAccess, deleted>>
       ELSE IF notFound(rt)
       THEN /\ res' = Failure(401, "Invalid refresh token")
            /\ UNCHANGED <<refreshTokenStore, issuedAccess, deleted>>
       ELSE LET record == refreshTokenStore[rt] IN
            IF refreshExpired(record, now)
            THEN /\ refreshTokenStore' = storeDelete(refreshTokenStore, rt)
                 /\ deleted' = noteDeleted(rt, "expired")
                 /\ res' = Failure(401, "Refresh token expired")
                 /\ UNCHANGED issuedAccess
            ELSE LET accessToken == signAccessToken(record.username, now) IN
                 /\ issuedAccess' = issuedAccess \cup
                        {[token |-> accessToken, by |-> "refresh", rt |-> rt]}
                 /\ res' = Response(200, "", accessToken, NoRt,
                                    expiresInSec(accessToken, now), FALSE, "none", FALSE)
                 /\ UNCHANGED <<refreshTokenStore, deleted>>
    /\ UNCHANGED <<now, config, client, nextRt, cache, fetching>>

\* POST /api/logout
Logout ==
  \E rt \in PresentableRts :
    /\ CountStep
    /\ req' = Request("logout", Undefined, Undefined, rt, NoToken)
    /\ prev' = Snapshot
    /\ IF rt # NoRt
       THEN /\ refreshTokenStore' = storeDelete(refreshTokenStore, rt)
            /\ deleted' = IF rt \in DOMAIN refreshTokenStore
                           THEN noteDeleted(rt, "logout") ELSE deleted
       ELSE UNCHANGED <<refreshTokenStore, deleted>>
    /\ res' = Response(200, "ok", NoToken, NoRt, -1, TRUE, "none", FALSE)
    /\ UNCHANGED <<now, config, client, nextRt, cache, fetching, issuedAccess>>

\* the access tokens a request can carry: none, any token the server has
\* signed, or one signed with another key
PresentableTokens == {i.token : i \in issuedAccess} \cup {NoToken, ForgedToken}

\* faulty variant: the verify error does not end the request
authMiddleware_fallthrough(token, t) ==
  IF token = NoToken THEN "Missing access token" ELSE "next"

\* authMiddleware: the rejection it answers with, or "next"
authMiddleware(token, t) ==
  IF token = NoToken THEN "Missing access token"
  ELSE IF ~jwtVerify(token, t) THEN "Invalid or expired access token"
  ELSE "next"

FreeFetchId == CHOOSE n \in 1..(Cardinality(fetching) + 1) : \A f \in fetching : f.id # n

\* GET /api/data up to the await of the upstream fetch: authMiddleware, then
\* fetchSheetAsObjects as far as the cache test and the configuration test
DataBegin ==
  \E token \in PresentableTokens :
    /\ CountStep
    /\ req' = Request("data", Undefined, Undefined, NoRt, token)
    /\ prev' = Snapshot
    /\ IF authMiddleware(token, now) # "next"
       THEN /\ res' = Failure(401, authMiddleware(token, now))
            /\ UNCHANGED fetching
       ELSE IF cacheHit(now)
       THEN /\ res' = Response(200, "", NoToken, NoRt, -1, FALSE, cachedSheet, TRUE)
            /\ UNCHANGED fetching
       ELSE IF ~sheetsConfigured
       THEN /\ res' = Response(500, "Failed to fetch sheet data", NoToken, NoRt, -1, FALSE,
                               "none", TRUE)
            /\ UNCHANGED fetching
       ELSE /\ fetching' = fetching \cup {[id |-> FreeFetchId, token |-> token, at |-> now]}
            /\ res' = [NoResponse EXCEPT !.cacheRead = TRUE]
    /\ UNCHANGED <<now, config, client, refreshTokenStore, nextRt, cache, issuedAccess, deleted>>

\* what the Sheets API answers: an error status, a body without values, a
\* header row alone, a header row and member rows
UpstreamAnswers == {"error", "novalues", "headeronly", "rows"}

\* GET /api/data from the upstream answer on: the rest of fetchSheetAsObjects
\* and the route's response
DataComplete ==
  \E f \in fetching, answer \in UpstreamAnswers :
    /\ CountStep
    /\ req' = [op |-> "data", username |-> Undefined, password |-> Undefined, rt |-> NoRt,
               token |-> f.token, at |-> f.at]
    /\ prev' = Snapshot
    /\ fetching' = fetching \ {f}
    /\ IF answer = "error"
       THEN /\ res' = Response(500, "Failed to fetch sheet data", NoToken, NoRt, -1, FALSE,
                               "none", TRUE)
            /\ UNCHANGED cache
       ELSE IF answer = "novalues"
       THEN /\ res' = Response(200, "", NoToken, NoRt, -1, FALSE, "empty", TRUE)
            /\ UNCHANGED cache
       ELSE LET objects == IF answer = "rows" THEN "members" ELSE "empty" IN
            /\ cachedSheet' = objects
            /\ cacheExpires' = now + SHEET_CACHE_TTL_MS
            /\ res' = Response(200, "", NoToken, NoRt, -1, FALSE, objects, TRUE)
    /\ UNCHANGED <<now, config, client, refreshTokenStore, nextRt, issuedAccess, deleted>>

(* ------------------------- the browser client ------------------------- *)
\* what the server, or the network, answers to one fetch
Failures == {[status |-> s, expiresIn |-> 0, body |-> "none"] : s \in {"401", "500", "network-error"}}

\* the seconds of life an answer of /login or /refresh can announce
ExpiresIns == {0, 1, 2, ACCESS_EXPIRES}

\* GET /data: the member list (possibly empty) or a failure
DataAnswers == {[status |-> "200", expiresIn |-> 0, body |-> b] : b \in {"members", "empty"}} \cup Failures

\* POST /login and POST /refresh: {expiresIn} or a failure
SessionAnswers == {[status |-> "200", expiresIn |-> e, body |-> "none"] : e \in ExpiresIns} \cup Failures

\* POST /logout
LogoutAnswers == {[status |-> "200", expiresIn |-> 0, body |-> "none"]} \cup Failures

SearchTerms == {"", "ann"}

\* faulty variant: every answer counts as a success
ok_always(answer) == TRUE

\* r.ok
ok(answer) == answer.status = "200"

\* faulty variant: any failure sends the probe to refresh
unauthorized_anyFailure(answer) == answer.status # "200"

\* r.status === 401
unauthorized(answer) == answer.status = "401"

Max(a, b) == IF a >= b THEN a ELSE b

\* Math.max((expiresInSec || 60) * 1000 - 2000, 0): 0 is falsy and reads as 60
autoLogoutDelay(seconds) ==
  Max((IF seconds = 0 THEN 60 ELSE seconds) * 1000 - 2000, 0)

Pending(ts) == {t \in ts : t.state = "pending"}

\* clearTimeout(id): a pending timeout with that id will not fire
clearTimeout(ts, id) ==
  {IF t.id = id /\ t.state = "pending" THEN [t EXCEPT !.state = "cancelled"] ELSE t : t \in ts}

\* faulty variant: re-arming without cancelling
scheduleAutoLogout_keep(ts, ref, t) == ts \cup {t}

\* if (expiryTimerRef.current) clearTimeout(expiryTimerRef.current); then setTimeout
scheduleAutoLogout(ts, ref, t) == clearTimeout(ts, ref) \cup {t}

\* what the component renders from
View == [isLoggedIn |-> isLoggedIn, data |-> data, member |-> member, searchTerm |-> searchTerm]

\* the timeout's callback: setIsLoggedIn(false); setData([]); setMember([]); setSearchTerm('')
sessionExpired(view) == [isLoggedIn |-> FALSE, data |-> "empty", member |-> "empty", searchTerm |-> ""]

\* faulty variant: the search state survives the logout
loggedOut_keepSearch(view) == [view EXCEPT !.isLoggedIn = FALSE, !.data = "empty"]

\* handleLogout: setIsLoggedIn(false); setData([]); setMember([]); setSearchTerm('')
loggedOut(view) == [isLoggedIn |-> FALSE, data |-> "empty", member |-> "empty", searchTerm |-> ""]

\* faulty variant: the list is kept when the probe fails
probeFailed_keepData(view) == [view EXCEPT !.isLoggedIn = FALSE]

\* the probe's failure paths: setIsLoggedIn(false); setData([])
probeFailed(view) == [view EXCEPT !.isLoggedIn = FALSE, !.data = "empty"]

\* faulty variant: the answer's body is dropped
loaded_dropped(view, answer) == [view EXCEPT !.isLoggedIn = TRUE, !.data = "empty"]

\* setData(json); setIsLoggedIn(true)
loaded(view, answer) == [view EXCEPT !.isLoggedIn = TRUE, !.data = answer.body]

\* the state setters of one continuation, and the searchTerm effect that
\* re-arms the debounce over the new render when the term changed
Render(v) ==
  /\ isLoggedIn' = v.isLoggedIn
  /\ data' = v.data
  /\ member' = v.member
  /\ searchTerm' = v.searchTerm
  /\ debounceRef' = IF v.searchTerm # searchTerm
                    THEN [searchTerm |-> v.searchTerm, data |-> v.data]
                    ELSE debounceRef

NoRender == UNCHANGED <<isLoggedIn, data, member, searchTerm, debounceRef>>

\* scheduleAutoLogout(seconds), called by the handler `op`
Arm(seconds, op) ==
  /\ timers' = scheduleAutoLogout(timers, expiryTimerRef,
                 [id |-> nextId, by |-> op.kind, op |-> op.id, expiresIn |-> seconds,
                  delay |-> autoLogoutDelay(seconds), state |-> "pending"])
  /\ expiryTimerRef' = nextId
  /\ nextId' = nextId + 1

NoArm == UNCHANGED <<timers, expiryTimerRef, nextId>>

MaxClientSteps == IF variant = "cookie" THEN MaxCookieSteps ELSE MaxTokenSteps

CountClientStep == csteps < MaxClientSteps /\ csteps' = csteps + 1

\* a handler starts and suspends at its first fetch
Start(what, kind, pc, path) ==
  LET o == [id |-> nextId, kind |-> kind, pc |-> pc, path |-> path, trail |-> <<>>]
  IN /\ ops' = ops \cup {o}
     /\ nextId' = nextId + 1
     /\ ev' = [what |-> what, op |-> o, answer |-> NoAnswer, timer |-> NoTimer]

\* the handler `op` received `answer` and ran to its next fetch, or to its end
Resume(what, op, answer, pc, path, trail) ==
  LET o == [op EXCEPT !.pc = pc, !.path = path, !.trail = trail]
  IN /\ ops' = IF pc = "done" THEN ops \ {op} ELSE (ops \ {op}) \cup {o}
     /\ ev' = [what |-> what, op |-> o, answer |-> answer, timer |-> NoTimer]

Answered(op, answer) == Append(op.trail, [call |-> op.path, status |-> answer.status])

(* ---- client/src/App.js: the session lives in HttpOnly cookies ---- *)
\* the mount effect: checkSessionAndLoad() up to its await of GET /data
checkSessionAndLoad ==
  /\ variant = "cookie" /\ ~mounted
  /\ CountClientStep
  /\ mounted' = TRUE
  /\ Start("checkSessionAndLoad", "probe", "data", "/data")
  /\ NoRender
  /\ UNCHANGED <<server, variant, timers, expiryTimerRef, localStorage>>

\* checkSessionAndLoad after the first GET /data
checkSessionAndLoad_data ==
  \E op \in ops, answer \in DataAnswers :
    /\ variant = "cookie" /\ op.kind = "probe" /\ op.pc = "data"
    /\ CountClientStep
    /\ IF unauthorized(answer)
       THEN /\ Resume("checkSessionAndLoad_data", op, answer, "refresh", "/refresh", Answered(op, answer))
            /\ NoRender
       ELSE /\ Resume("checkSessionAndLoad_data", op, answer, "done", op.path, Answered(op, answer))
            /\ IF ok(answer) THEN Render(loaded(View, answer)) ELSE Render(probeFailed(View))
    /\ NoArm
    /\ UNCHANGED <<server, variant, mounted, localStorage>>

\* tryRefresh after POST /refresh, and checkSessionAndLoad on its result
tryRefresh ==
  \E op \in ops, answer \in SessionAnswers :
    /\ variant = "cookie" /\ op.kind = "probe" /\ op.pc = "refresh"
    /\ CountClientStep
    /\ IF ok(answer)
       THEN /\ Arm(answer.expiresIn, op)
            /\ Resume("tryRefresh", op, answer, "retry", "/data", Answered(op, answer))
            /\ NoRender
       ELSE /\ UNCHANGED <<timers, expiryTimerRef, nextId>>
            /\ Resume("tryRefresh", op, answer, "done", op.path, Answered(op, answer))
            /\ Render(probeFailed(View))
    /\ UNCHANGED <<server, variant, mounted, localStorage>>

\* checkSessionAndLoad after the retried GET /data
checkSessionAndLoad_retry ==
  \E op \in ops, answer \in DataAnswers :
    /\ variant = "cookie" /\ op.kind = "probe" /\ op.pc = "retry"
    /\ CountClientStep
    /\ Resume("checkSessionAndLoad_retry", op, answer, "done", op.path, Answered(op, answer))
    /\ IF ok(answer) THEN Render(loaded(View, answer)) ELSE Render(probeFailed(View))
    /\ NoArm
    /\ UNCHANGED <<server, variant, mounted, localStorage>>

\* the login form (shown while !isLoggedIn) is submitted: handleLogin up to
\* its await of POST /login
handleLogin ==
  /\ variant = "cookie" /\ mounted /\ ~isLoggedIn
  /\ CountClientStep
  /\ Start("handleLogin", "login", "login", "/login")
  /\ NoRender
  /\ UNCHANGED <<server, variant, mounted, timers, expiryTimerRef, localStorage>>

\* handleLogin after POST /login
handleLogin_login ==
  \E op \in ops, answer \in SessionAnswers :
    /\ variant = "cookie" /\ op.kind = "login" /\ op.pc = "login"
    /\ CountClientStep
    /\ IF ok(answer)
       THEN /\ Arm(answer.expiresIn, op)
            /\ Resume("handleLogin_login", op, answer, "data", "/data", Answered(op, answer))
       ELSE /\ UNCHANGED <<timers, expiryTimerRef, nextId>>
            /\ Resume("handleLogin_login", op, answer, "done", op.path, Answered(op, answer))
    /\ NoRender
    /\ UNCHANGED <<server, variant, mounted, localStorage>>

\* handleLogin after its GET /data
handleLogin_data ==
  \E op \in ops, answer \in DataAnswers :
    /\ variant = "cookie" /\ op.kind = "login" /\ op.pc = "data"
    /\ CountClientStep
    /\ Resume("handleLogin_data", op, answer, "done", op.path, Answered(op, answer))
    /\ IF ok(answer) THEN Render(loaded(View, answer)) ELSE NoRender
    /\ NoArm
    /\ UNCHANGED <<server, variant, mounted, localStorage>>

\* the logout button (shown while isLoggedIn) is clicked: handleLogout up to
\* its await of POST /logout
handleLogout ==
  /\ variant = "cookie" /\ mounted /\ isLoggedIn
  /\ CountClientStep
  /\ Start("handleLogout", "logout", "logout", "/logout")
  /\ NoRender
  /\ UNCHANGED <<server, variant, mounted, timers, expiryTimerRef, localStorage>>

\* handleLogout's finally block, whatever POST /logout came to
handleLogout_finally ==
  \E op \in ops, answer \in LogoutAnswers :
    /\ variant = "cookie" /\ op.kind = "logout" /\ op.pc = "logout"
    /\ CountClientStep
    /\ Resume("handleLogout_finally", op, answer, "done", op.path, Answered(op, answer))
    /\ Render(loggedOut(View))
    /\ timers' = clearTimeout(timers, expiryTimerRef)
    /\ UNCHANGED <<server, variant, mounted, expiryTimerRef, nextId, localStorage>>

(* ---- both clients: the expiry timeout and the search box ---- *)
\* a pending timeout reaches its delay and its callback runs
autoLogout ==
  \E t \in Pending(timers) :
    /\ CountClientStep
    /\ timers' = (timers \ {t}) \cup {[t EXCEPT !.state = "fired"]}
    /\ Render(sessionExpired(View))
    /\ ev' = [what |-> "autoLogout", op |-> NoOp, answer |-> NoAnswer, timer |-> t]
    /\ UNCHANGED <<server, variant, mounted, expiryTimerRef, nextId, ops, localStorage>>

\* the search box (shown while isLoggedIn) changes: setSearchTerm(value)
onSearchChange ==
  \E term \in SearchTerms \ {searchTerm} :
    /\ mounted /\ isLoggedIn
    /\ CountClientStep
    /\ Render([View EXCEPT !.searchTerm = term])
    /\ ev' = [what |-> "onSearchChange", op |-> NoOp, answer |-> NoAnswer, timer |-> NoTimer]
    /\ UNCHANGED <<server, variant, mounted, timers, expiryTimerRef, nextId, ops, localStorage>>

\* the debounce elapses: handleSubmit over the render it closed over
handleSubmit ==
  \E hit \in {"found", "empty"} :
    /\ debounceRef # NoDebounce
    /\ CountClientStep
    /\ member' = IF debounceRef.searchTerm = "" \/ debounceRef.data = "empty" THEN "empty" ELSE hit
    /\ debounceRef' = NoDebounce
    /\ ev' = [what |-> "handleSubmit", op |-> NoOp, answer |-> NoAnswer, timer |-> NoTimer]
    /\ UNCHANGED <<server, variant, mounted, isLoggedIn, data, searchTerm, timers,
                   expiryTimerRef, nextId, ops, localStorage>>

(* ---- server/index.js, from line 51: the session lives in localStorage ---- *)
\* Date.now() + json.expiresIn * 1000 as the next Date.now() > expiry will
\* find it: with expiresIn 0 it has passed as soon as the clock has moved
accessExpiry(seconds) == IF seconds = 0 THEN {"future", "past"} ELSE {"future"}

\* localStorage after a login, and after a refresh
StoredLogin == [access_token |-> "stored", refresh_token |-> "stored", access_expiry |-> "future"]
storedLogin(expiry) == [StoredLogin EXCEPT !.access_expiry = expiry]
storedRefresh(storage, expiry) == [storage EXCEPT !.access_token = "stored", !.access_expiry = expiry]

\* apiFetch up to its first await: a passed access_expiry sends it to
\* refreshToken(), which gives up at once without a refresh_token
apiFetchStart(storage) ==
  IF storage.access_expiry = "past"
  THEN IF storage.refresh_token = "null" THEN "throw" ELSE "expired-refresh"
  ELSE "fetch"

\* handleLogout (synchronous in this client)
Token_logout ==
  /\ localStorage' = EmptyStorage
  /\ Render(loggedOut(View))
  /\ timers' = clearTimeout(timers, expiryTimerRef)
  /\ UNCHANGED <<expiryTimerRef, nextId>>

\* apiFetch threw into its caller: checkSessionAndLoad logs out, handleLogin
\* shows the error
Token_caught(op) ==
  IF op.kind = "probe"
  THEN Token_logout
  ELSE NoRender /\ NoArm /\ UNCHANGED localStorage

\* Date.now() passes the stored access_expiry
Token_expire ==
  /\ variant = "token" /\ mounted /\ localStorage.access_expiry = "future"
  /\ CountClientStep
  /\ localStorage' = [localStorage EXCEPT !.access_expiry = "past"]
  /\ ev' = [what |-> "expire", op |-> NoOp, answer |-> NoAnswer, timer |-> NoTimer]
  /\ NoRender /\ NoArm
  /\ UNCHANGED <<server, variant, mounted, ops>>

\* the mount effect: checkSessionAndLoad() up to apiFetch's first await
Token_checkSessionAndLoad ==
  /\ variant = "token" /\ ~mounted
  /\ CountClientStep
  /\ mounted' = TRUE
  /\ IF localStorage.access_token = "null"
     THEN /\ ev' = [what |-> "checkSessionAndLoad", op |-> NoOp, answer |-> NoAnswer, timer |-> NoTimer]
          /\ NoRender /\ NoArm
          /\ UNCHANGED <<ops, localStorage>>
     ELSE IF apiFetchStart(localStorage) = "throw"
     THEN /\ ev' = [what |-> "checkSessionAndLoad", op |-> NoOp, answer |-> NoAnswer, timer |-> NoTimer]
          /\ Token_logout
          /\ UNCHANGED ops
     ELSE /\ Start("checkSessionAndLoad", "probe", apiFetchStart(localStorage), "/data")
          /\ NoRender
          /\ UNCHANGED <<timers, expiryTimerRef, localStorage>>
  /\ UNCHANGED <<server, variant>>

\* the login form is submitted: handleLogin up to apiFetch's first await
Token_handleLogin ==
  /\ variant = "token" /\ mounted /\ ~isLoggedIn
  /\ CountClientStep
  /\ IF apiFetchStart(localStorage) = "throw"
     THEN /\ ev' = [what |-> "handleLogin", op |-> NoOp, answer |-> NoAnswer, timer |-> NoTimer]
          /\ UNCHANGED <<ops, nextId>>
     ELSE Start("handleLogin", "login", apiFetchStart(localStorage), "/login")
  /\ NoRender
  /\ UNCHANGED <<server, variant, mounted, timers, expiryTimerRef, localStorage>>

\* refreshToken after POST /refresh, called by apiFetch before the request
\* (access_expiry passed) or after a 401. On success apiFetch goes on to the
\* request; after a 401 it does so by calling itself, so the new access_expiry
\* is looked at again, and without a refresh_token that call throws
Token_refreshToken ==
  \E op \in ops, answer \in SessionAnswers :
    /\ variant = "token" /\ op.pc \in {"expired-refresh", "refresh"}
    /\ CountClientStep
    /\ LET trail == Append(op.trail, [call |-> "/refresh", status |-> answer.status])
       IN IF ~ok(answer)
          THEN /\ Token_logout
               /\ Resume("refreshToken", op, answer, "done", op.path, trail)
          ELSE \E expiry \in accessExpiry(answer.expiresIn) :
               LET storage == storedRefresh(localStorage, expiry)
                   start == IF op.pc = "refresh" THEN apiFetchStart(storage) ELSE "fetch"
               IN IF start = "throw" /\ op.kind = "probe"
                  THEN /\ localStorage' = EmptyStorage
                       /\ Render(loggedOut(View))
                       /\ timers' = clearTimeout(
                                      scheduleAutoLogout(timers, expiryTimerRef,
                                        [id |-> nextId, by |-> op.kind, op |-> op.id,
                                         expiresIn |-> answer.expiresIn,
                                         delay |-> autoLogoutDelay(answer.expiresIn),
                                         state |-> "pending"]),
                                      nextId)
                       /\ expiryTimerRef' = nextId
                       /\ nextId' = nextId + 1
                       /\ Resume("refreshToken", op, answer, "done", op.path, trail)
                  ELSE /\ localStorage' = storage
                       /\ Arm(answer.expiresIn, op)
                       /\ NoRender
                       /\ Resume("refreshToken", op, answer,
                                 IF start = "throw" THEN "done" ELSE start, op.path, trail)
    /\ UNCHANGED <<server, variant, mounted>>

\* apiFetch after the request itself, and its caller on what it returns
Token_apiFetch ==
  \E op \in ops :
    \E answer \in (IF op.path = "/login" THEN SessionAnswers ELSE DataAnswers) :
      /\ variant = "token" /\ op.pc = "fetch"
      /\ CountClientStep
      /\ IF answer.status = "network-error"
         THEN /\ Token_caught(op)
              /\ Resume("apiFetch", op, answer, "done", op.path, Answered(op, answer))
         ELSE IF unauthorized(answer)
         THEN IF localStorage.refresh_token = "null"
              THEN /\ Token_caught(op)
                   /\ Resume("apiFetch", op, answer, "done", op.path, Answered(op, answer))
              ELSE /\ NoRender /\ NoArm /\ UNCHANGED localStorage
                   /\ Resume("apiFetch", op, answer, "refresh", op.path, Answered(op, answer))
         ELSE IF ~ok(answer)
         THEN /\ Token_caught(op)
              /\ Resume("apiFetch", op, answer, "done", op.path, Answered(op, answer))
         ELSE IF op.path = "/login"
         THEN \E expiry \in accessExpiry(answer.expiresIn) :
              /\ localStorage' = storedLogin(expiry)
              /\ Arm(answer.expiresIn, op)
              /\ NoRender
              /\ Resume("apiFetch", op, answer, apiFetchStart(localStorage'), "/data", <<>>)
         ELSE /\ Render(loaded(View, answer))
              /\ NoArm /\ UNCHANGED localStorage
              /\ Resume("apiFetch", op, answer, "done", op.path, Answered(op, answer))
      /\ UNCHANGED <<server, variant, mounted>>

\* the logout button is clicked: handleLogout
Token_handleLogout ==
  /\ variant = "token" /\ mounted /\ isLoggedIn
  /\ CountClientStep
  /\ Token_logout
  /\ ev' = [what |-> "handleLogout", op |-> NoOp, answer |-> NoAnswer, timer |-> NoTimer]
  /\ UNCHANGED <<server, variant, mounted, ops>>

\* the page is opened against a running server: either client, and for the
\* token client what an earlier visit left in localStorage
InitClient ==
  /\ ServerStarted
  /\ USERNAME = "admin" /\ PASSWORD = "secret" /\ sheetsConfigured
  /\ Unmounted
  /\ \/ variant = "cookie" /\ localStorage = EmptyStorage
     \/ variant = "token" /\ localStorage \in
          {EmptyStorage, StoredLogin, [StoredLogin EXCEPT !.access_expiry = "past"]}

(* ------------------------------ claims -------------------------------- *)
\* the refresh credentials generated before the observed request
GeneratedBefore == 1..(prev.nextRt - 1)

\* the observed request presented a refresh credential that was then in the store
Registered == req.rt \in DOMAIN prev.store

\* ... and the clock had then passed that record's absolute expiry
PastExpiry == Registered /\ prev.store[req.rt].expiresAt < req.at

\* the store differs from the one before the request by the absence of rt alone
OnlyRemoved(rt) ==
  /\ DOMAIN refreshTokenStore = (DOMAIN prev.store) \ {rt}
  /\ \A k \in DOMAIN refreshTokenStore : refreshTokenStore[k] = prev.store[k]

\* the identity is configured: both LOGIN_USER and LOGIN_PASS are set
Configured == ~Falsy(USERNAME) /\ ~Falsy(PASSWORD)

\* C1: an access credential is issued only by a login that presents the
\* configured username/password pair, or by a refresh that presents a refresh
\* credential which an earlier successful login inserted, which has not been
\* deleted since (by logout or by the expired path), and which is not past its
\* absolute expiry.
C1_AccessIssuedOnlyByLoginOrRefresh ==
  (res.access # NoToken \/ {i.token : i \in issuedAccess} # prev.issued) =>
    \/ /\ req.op = "login"
       /\ Configured
       /\ req.username = USERNAME
       /\ req.password = PASSWORD
    \/ /\ req.op = "refresh"
       /\ req.rt \in GeneratedBefore
       /\ req.rt \notin DOMAIN prev.deleted
       /\ Registered
       /\ prev.store[req.rt].expiresAt >= req.at

\* a refresh issued an access credential although another credential had been
\* logged out before
C1_Witness ==
  /\ req.op = "refresh"
  /\ res.access # NoToken
  /\ prev.deleted # <<>>

\* C2: a login whose pair is not the configured identity (a field empty or
\* absent, or no identity configured at all, included) fails with 401 "Invalid
\* credentials", or with 400 when a field is missing; the refresh store is
\* unchanged and the response sets neither credential.
C2_FailedLoginChangesNothing ==
  (req.op = "login" /\ ~(Configured /\ req.username = USERNAME /\ req.password = PASSWORD)) =>
    /\ res.status \in {400, 401}
    /\ (res.status = 400) <=> (Falsy(req.username) \/ Falsy(req.password))
    /\ (res.status = 401) => (res.message = "Invalid credentials")
    /\ refreshTokenStore = prev.store
    /\ nextRt = prev.nextRt
    /\ res.access = NoToken
    /\ res.refresh = NoRt
    /\ {i.token : i \in issuedAccess} = prev.issued

\* the right username with a wrong password was refused while a session exists
C2_Witness ==
  /\ req.op = "login"
  /\ req.username = USERNAME
  /\ req.password = "guess"
  /\ res.status = 401
  /\ prev.store # <<>>

\* C3: a successful login inserts exactly one record, keyed by a credential
\* generated for it, owned by the presented username, expiring at the login
\* time plus REFRESH_EXPIRES_DAYS; it returns expiresIn = ACCESS_EXPIRES (900)
\* and leaves every existing record as it was.
C3_LoginInsertsOneRecord ==
  (req.op = "login" /\ res.status = 200) =>
    /\ res.refresh \notin GeneratedBefore \cup {NoRt, ForgedRt}
    /\ res.refresh \notin DOMAIN prev.store
    /\ DOMAIN refreshTokenStore = (DOMAIN prev.store) \cup {res.refresh}
    /\ refreshTokenStore[res.refresh] =
         [username |-> req.username,
          expiresAt |-> req.at + REFRESH_EXPIRES_DAYS * 24 * 60 * 60 * 1000]
    /\ \A k \in DOMAIN prev.store : refreshTokenStore[k] = prev.store[k]
    /\ res.expiresIn = ACCESS_EXPIRES
    /\ res.expiresIn = 900

\* a second login, later than the first, added its record beside the first
C3_Witness ==
  /\ req.op = "login"
  /\ res.status = 200
  /\ req.at > 0
  /\ prev.store # <<>>

\* C4: a refresh that presents a credential never generated, or one that was
\* deleted (by logout or by the expired path), fails with 401 "Invalid refresh
\* token", whatever was handled since the deletion.
C4_UnknownOrDeletedRefreshFails ==
  (/\ req.op = "refresh"
   /\ req.rt # NoRt
   /\ (req.rt \notin GeneratedBefore \/ req.rt \in DOMAIN prev.deleted)) =>
    /\ res.status = 401
    /\ res.message = "Invalid refresh token"
    /\ res.access = NoToken
    /\ refreshTokenStore = prev.store

\* a credential was refused after its logout, while another session was live
C4_Witness ==
  /\ req.op = "refresh"
  /\ req.rt \in DOMAIN prev.deleted
  /\ prev.deleted[req.rt] = "logout"
  /\ prev.store # <<>>
  /\ res.status = 401

\* C5 (state part): a refresh that presents a registered credential strictly
\* after its absolute expiry fails with 401 "Refresh token expired" and removes
\* that record and no other.
C5_ExpiredRefreshRemoves ==
  (req.op = "refresh" /\ PastExpiry) =>
    /\ res.status = 401
    /\ res.message = "Refresh token expired"
    /\ res.access = NoToken
    /\ OnlyRemoved(req.rt)
    /\ req.rt \notin DOMAIN refreshTokenStore

\* C5 (step part): the refresh that follows a "Refresh token expired" answer
\* with the same credential is answered "Invalid refresh token".
C5_ThenInvalid ==
  (/\ req.op = "refresh"
   /\ res.message = "Refresh token expired"
   /\ req'.op = "refresh"
   /\ req'.rt = req.rt) => (res'.status = 401 /\ res'.message = "Invalid refresh token")

\* C5: a refresh with a registered credential strictly after its absolute
\* expiry fails with ExpiredToken and removes the record, so that the next
\* identical refresh fails with InvalidToken.
C5_ExpiredThenInvalid == [](C5_ExpiredRefreshRemoves) /\ [][C5_ThenInvalid]_vars

\* a credential removed by the expired path was presented again and refused as invalid
C5_Witness ==
  /\ req.op = "refresh"
  /\ req.rt \in DOMAIN prev.deleted
  /\ prev.deleted[req.rt] = "expired"
  /\ res.message = "Invalid refresh token"

\* C6: a refresh that presents a registered, unexpired credential succeeds; the
\* access credential it returns expires ACCESS_EXPIRES after the refresh time
\* (both in the whole seconds a JWT counts in) and carries the record's
\* username; the store, and with it the record's key, owner and absolute
\* expiry, is as before, so the credential serves again until that expiry.
C6_RefreshKeepsRecord ==
  (req.op = "refresh" /\ Registered /\ ~PastExpiry) =>
    /\ res.status = 200
    /\ res.access.key = JWT_SECRET
    /\ res.access.exp = (req.at \div 1000) + ACCESS_EXPIRES
    /\ res.access.username = prev.store[req.rt].username
    /\ res.expiresIn = ACCESS_EXPIRES
    /\ res.refresh = NoRt
    /\ refreshTokenStore = prev.store
    /\ [token |-> res.access, by |-> "refresh", rt |-> req.rt] \in issuedAccess

\* a credential that had already served a refresh served another one at the
\* last instant of its lifetime
C6_Witness ==
  /\ req.op = "refresh"
  /\ res.status = 200
  /\ req.at = prev.store[req.rt].expiresAt
  /\ \E i \in issuedAccess : i.by = "refresh" /\ i.rt = req.rt /\ i.token # res.access

\* what logout does to the store when the credential is registered, and when
\* it is absent, unknown or already deleted
LogoutOfRegistered == Registered => OnlyRemoved(req.rt)
LogoutOfUnregistered == ~Registered => refreshTokenStore = prev.store
LogoutSucceeds ==
  /\ res.status = 200
  /\ res.message = "ok"
  /\ res.cleared
  /\ res.access = NoToken
  /\ res.refresh = NoRt

\* C7 as stated: logout always succeeds; with a registered credential it
\* removes exactly that record; with an absent, unknown, already-deleted or
\* expired credential it leaves the store unchanged.
C7_AsStated ==
  (req.op = "logout") =>
    /\ LogoutSucceeds
    /\ LogoutOfRegistered
    /\ LogoutOfUnregistered
    /\ PastExpiry => refreshTokenStore = prev.store

\* C7 (amended): logout always succeeds; with a registered credential, expired
\* or not, it removes exactly that record; with an absent, unknown or
\* already-deleted credential it leaves the store unchanged, so a second logout
\* with the same credential changes nothing.
C7_LogoutIdempotent ==
  (req.op = "logout") =>
    /\ LogoutSucceeds
    /\ LogoutOfRegistered
    /\ LogoutOfUnregistered
    /\ PastExpiry => req.rt \notin DOMAIN refreshTokenStore

\* a second logout with the same credential, while another session is live
C7_Witness ==
  /\ req.op = "logout"
  /\ req.rt \in DOMAIN prev.deleted
  /\ prev.deleted[req.rt] = "logout"
  /\ prev.store # <<>>
  /\ refreshTokenStore = prev.store

\* the observed GET /api/data request was let through by authMiddleware
Accepted == req.op = "data" /\ res.status # 401
Rejected == req.op = "data" /\ res.status = 401

\* the access tokens of sessions whose refresh credential was logged out
LoggedOutTokens ==
  {i.token : i \in {j \in issuedAccess : j.rt \in DOMAIN deleted /\ deleted[j.rt] = "logout"}}

\* C8: logout does not revoke access credentials: GET /api/data with an access
\* credential of a logged-out session is accepted at every time before the
\* token's embedded expiry and rejected from that expiry on; at the logout the
\* token has at most ACCESS_EXPIRES left.
C8_LogoutKeepsAccessToken ==
  /\ (req.op = "data" /\ req.token \in LoggedOutTokens) =>
       /\ (req.at \div 1000) < req.token.exp => Accepted
       /\ (req.at \div 1000) >= req.token.exp => Rejected
  /\ (req.op = "logout") =>
       \A i \in issuedAccess : i.rt = req.rt => i.token.exp - (req.at \div 1000) <= ACCESS_EXPIRES

\* after the logout the directory was served to the session's access token
C8_Witness ==
  /\ req.op = "data"
  /\ req.token \in LoggedOutTokens
  /\ refreshTokenStore = <<>>
  /\ res.status = 200
  /\ res.data = "members"

\* the access tokens that logins issued
LoginTokens == {i.token : i \in {j \in issuedAccess : j.by = "login"}}

\* C9: a login with the configured pair succeeds and its access credential
\* bears the login time T as iat; with L = ACCESS_EXPIRES the verifier accepts
\* the credential at every time before T + L and rejects it at every time
\* after T + L, times being the whole seconds that the token and the verifier
\* count in.
C9_LoginTokenValidForTtl ==
  /\ (req.op = "login" /\ Configured /\ req.username = USERNAME /\ req.password = PASSWORD) =>
       /\ res.status = 200
       /\ res.access.key = JWT_SECRET
       /\ res.access.iat = req.at \div 1000
       /\ res.access \in LoginTokens
  /\ (req.op = "data" /\ req.token \in LoginTokens) =>
       /\ (req.at \div 1000) < req.token.iat + ACCESS_EXPIRES => Accepted
       /\ (req.at \div 1000) > req.token.iat + ACCESS_EXPIRES => Rejected

\* a login's token was accepted in the last second of its lifetime
C9_Witness ==
  /\ req.op = "data"
  /\ req.token \in LoginTokens
  /\ (req.at \div 1000) = req.token.iat + ACCESS_EXPIRES - 1
  /\ Accepted

\* the request carried a token this server signed, presented before its expiry
IssuedAndUnexpired == req.token \in prev.issued /\ (req.at \div 1000) < req.token.exp

\* C10: GET /api/data answers 200 only to a request that carries an access
\* credential this server issued and that is unexpired; a request with no
\* credential, with one not signed with the server key, or with an expired one
\* is answered 401 without the directory being fetched upstream or read from
\* the cache.
C10_DataOnlyForValidToken ==
  (req.op = "data") =>
    /\ res.status = 200 => IssuedAndUnexpired
    /\ res.data # "none" => IssuedAndUnexpired
    /\ ~IssuedAndUnexpired =>
         /\ res.status = 401
         /\ res.data = "none"
         /\ ~res.cacheRead
         /\ fetching = prev.fetching
         /\ cachedSheet = prev.cachedSheet
         /\ cacheExpires = prev.cacheExpires

\* a token signed with another key was refused while the cache held the directory
C10_Witness ==
  /\ req.op = "data"
  /\ req.token = ForgedToken
  /\ res.status = 401
  /\ cachedSheet = "members"
  /\ cacheExpires > req.at

(* ---- the client's claims: read under SpecClient ---- *)
\* the handlers suspended at a fetch, and the one that just ran
Handlers == ops \cup (IF ev.op = NoOp THEN {} ELSE {ev.op})
Probes == {o \in Handlers : o.kind = "probe"}

Count(seq, x) == Cardinality({i \in DOMAIN seq : seq[i] = x})

\* the network call a handler waits for
Awaited(o) ==
  IF o.pc = "done" THEN <<>>
  ELSE IF o.pc \in {"refresh", "expired-refresh"} THEN <<"/refresh">>
  ELSE <<o.path>>

\* the network calls a handler has made, the pending one included
Issued(o) == [i \in DOMAIN o.trail |-> o.trail[i].call] \o Awaited(o)

IsData(e) == e.call = "/data"
DataAnswered(o) == SelectSeq(o.trail, IsData)

\* C11: in the cookie client a session probe calls /data, then /refresh, then
\* /data and nothing more; it calls /refresh (once) exactly when the first
\* /data answer is 401, it retries /data (once) exactly when that refresh
\* succeeded, and after the retry's answer, whatever it is, it has ended
C11_ProbeRefreshesOnce ==
  variant = "cookie" =>
    \A o \in Probes :
      /\ Count(Issued(o), "/refresh") <= 1
      /\ Count(Issued(o), "/data") <= 2
      /\ Len(Issued(o)) <= 3
      /\ Issued(o) = SubSeq(<<"/data", "/refresh", "/data">>, 1, Len(Issued(o)))
      /\ Len(o.trail) >= 1 =>
           (Count(Issued(o), "/refresh") = 1 <=> o.trail[1].status = "401")
      /\ Len(o.trail) >= 2 =>
           (Count(Issued(o), "/data") = 2 <=> o.trail[2].status = "200")
      /\ Len(o.trail) = 3 => o.pc = "done"

\* a probe whose retry was rejected with 401 has ended after three calls
C11_Witness ==
  /\ variant = "cookie"
  /\ ev.what = "checkSessionAndLoad_retry"
  /\ ev.op.pc = "done"
  /\ [i \in 1..3 |-> ev.op.trail[i].status] = <<"401", "200", "401">>

\* C12 (as stated): in the token-storage client one call of apiFetch makes at
\* most one refresh call and sends its request at most twice
C12_AsStated ==
  variant = "token" =>
    \A o \in Handlers :
      /\ Count(Issued(o), "/refresh") <= 1
      /\ Count(Issued(o), o.path) <= 2

\* the first /data attempt of a probe was answered 401 and the retry 200
RetrySucceeded(o) ==
  /\ Len(DataAnswered(o)) >= 2
  /\ DataAnswered(o)[1].status = "401"
  /\ DataAnswered(o)[2].status = "200"

\* C13 (as stated): when the first attempt is answered 401 and the retry 200,
\* exactly two network calls are made
C13_AsStated == \A o \in Probes : RetrySucceeded(o) => Len(o.trail) = 2

\* C13 (amended): when the first /data attempt of a session probe is answered
\* 401 and the retry 200, the request was sent exactly twice with a successful
\* refresh call between the two attempts (three calls in the cookie client;
\* the token client adds a refresh call before an attempt begun with its stored
\* expiry passed), the last call is the successful retry, the probe has ended,
\* and it leaves the client authenticated holding the list it received
C13_RetryAfterRefresh ==
  \A o \in Probes :
    RetrySucceeded(o) =>
      /\ o.pc = "done" /\ o = ev.op
      /\ Len(DataAnswered(o)) = 2
      /\ \E i \in DOMAIN o.trail :
           /\ o.trail[i] = [call |-> "/refresh", status |-> "200"]
           /\ \E j \in 1..(i - 1) : o.trail[j] = [call |-> "/data", status |-> "401"]
      /\ variant = "cookie" => Len(o.trail) = 3
      /\ Len(o.trail) >= 3
      /\ o.trail[Len(o.trail)] = [call |-> "/data", status |-> "200"]
      /\ isLoggedIn
      /\ data = ev.answer.body

\* a cookie probe took 401, a successful refresh and 200 with a member list
C13_Witness ==
  /\ variant = "cookie"
  /\ ev.op.kind = "probe"
  /\ RetrySucceeded(ev.op)
  /\ ev.answer.body = "members"
  /\ data = "members"

\* a refresh call was just answered, and not with success
RefreshFailed == ev.what \in {"tryRefresh", "refreshToken"} /\ ev.answer.status # "200"

\* C14: when a refresh call is rejected or fails on the network, the client is
\* left logged out with no directory data, and the handler that made the call
\* has ended with that call as its last: no other refresh, no retry
C14_FailedRefreshLogsOut ==
  RefreshFailed =>
    /\ ~isLoggedIn
    /\ data = "empty"
    /\ ev.op.pc = "done"
    /\ ev.op.id \notin {o.id : o \in ops}
    /\ ev.op.trail[Len(ev.op.trail)] = [call |-> "/refresh", status |-> ev.answer.status]

\* a refresh call failed on the network
C14_Witness == RefreshFailed /\ ev.answer.status = "network-error"

\* C15 (as stated): every timer is armed with max(expiresIn * 1000 - 2000, 0) ms
C15_AsStated == \A t \in timers : t.delay = Max(t.expiresIn * 1000 - 2000, 0)

\* C16: at most one expiry timer is pending, it is the one expiryTimerRef
\* holds, and the timer whose callback runs is that one: a timer that a re-arm
\* or a logout cancelled does not fire
C16_OnePendingTimer ==
  /\ Cardinality(Pending(timers)) <= 1
  /\ \A t \in Pending(timers) : t.id = expiryTimerRef
  /\ ev.what = "autoLogout" => ev.timer.state = "pending" /\ ev.timer.id = expiryTimerRef

\* a timer fired after an earlier one had been cancelled by a re-arm
C16_Witness ==
  /\ ev.what = "autoLogout"
  /\ \E t \in timers : t.state = "cancelled" /\ t.id < ev.timer.id

\* C17 (as stated): once the timer a login armed has fired, and until a re-arm,
\* the client reads logged out with no directory data
C17_AsStated ==
  \A t \in timers :
    (t.by = "login" /\ t.state = "fired" /\ t.id = expiryTimerRef) =>
      (~isLoggedIn /\ data = "empty")

\* a logout's finally block has just run
LogoutEnded == variant = "cookie" /\ ev.what = "handleLogout_finally"

\* C18: when a logout ends, whatever POST /logout came to, the client is
\* logged out, no expiry timer is pending, and the directory data, the search
\* results and the search term are empty; this covers the second of two
\* logouts and a logout during which the timer fired
C18_LogoutAlwaysCompletes ==
  LogoutEnded =>
    /\ ~isLoggedIn
    /\ data = "empty"
    /\ member = "empty"
    /\ searchTerm = ""
    /\ Pending(timers) = {}

\* a logout that failed on the network ended, cancelling the pending timer
C18_Witness ==
  /\ LogoutEnded
  /\ ev.answer.status = "network-error"
  /\ \E t \in timers : t.id = expiryTimerRef /\ t.state = "cancelled"

\* C19: after every handler step, timer callback and continuation, a client
\* that is not authenticated holds no directory data
C19_NoDataWhenLoggedOut == ~isLoggedIn => data = "empty"

\* a probe that failed logged out a client that was showing the member list
\* (the pending search still closes over it)
C19_Witness ==
  /\ ~isLoggedIn
  /\ ev.op.kind = "probe" /\ ev.op.pc = "done"
  /\ debounceRef # NoDebounce /\ debounceRef.data = "members"

\* a login carrying both fields that was refused
RefusedLogin == req.op = "login" /\ ~Falsy(req.username) /\ ~Falsy(req.password) /\ res.status # 200
WrongUsername == req.username # USERNAME
WrongPassword == req.password # PASSWORD

\* C20: a refused login that carried both fields gets one and the same answer
\* whichever field was wrong (status 401, the fixed message, no access token,
\* no refresh credential, no cookie cleared), and leaves the refresh store, the
\* credential counter and the set of signed tokens as they were; so a refusal
\* for a wrong username and a refusal for a wrong password cannot be told apart
C20_LoginFailureUniform ==
  RefusedLogin =>
    /\ WrongUsername \/ WrongPassword
    /\ res = [status |-> 401, message |-> "Invalid credentials", access |-> NoToken,
              refresh |-> NoRt, expiresIn |-> -1, cleared |-> FALSE, data |-> "none",
              cacheRead |-> FALSE]
    /\ refreshTokenStore = prev.store
    /\ nextRt = prev.nextRt
    /\ {i.token : i \in issuedAccess} = prev.issued

\* a login with the configured username and a wrong password was refused
C20_Witness == RefusedLogin /\ ~WrongUsername /\ WrongPassword /\ Configured

\* C21: a refresh never inserts and never modifies a record; without a
\* credential it answers "Missing refresh token", with one that is not in the
\* store "Invalid refresh token", both with the store unchanged; with a
\* registered one past its expiry "Refresh token expired", removing that record
\* alone; a failing refresh signs no access token and sets none on the answer.
\* The answer to a request without a credential shows that the missing check
\* comes first, before the store is looked up.
C21_RefreshFrame ==
  req.op = "refresh" =>
    /\ DOMAIN refreshTokenStore \subseteq DOMAIN prev.store
    /\ \A k \in DOMAIN refreshTokenStore : refreshTokenStore[k] = prev.store[k]
    /\ req.rt = NoRt =>
         (res.status = 401 /\ res.message = "Missing refresh token" /\ refreshTokenStore = prev.store)
    /\ (req.rt # NoRt /\ ~Registered) =>
         (res.status = 401 /\ res.message = "Invalid refresh token" /\ refreshTokenStore = prev.store)
    /\ PastExpiry =>
         (res.status = 401 /\ res.message = "Refresh token expired" /\ OnlyRemoved(req.rt))
    /\ (Registered /\ ~PastExpiry) => refreshTokenStore = prev.store
    /\ res.status # 200 =>
         /\ res.access = NoToken
         /\ {i.token : i \in issuedAccess} = prev.issued
    /\ res.status = 200 => (Registered /\ ~PastExpiry)

\* an expired credential was refused and removed while another record stayed
C21_Witness ==
  /\ req.op = "refresh"
  /\ PastExpiry
  /\ res.message = "Refresh token expired"
  /\ refreshTokenStore # <<>>

\* C22 (as stated): in the cookie client every handler that had a /data
\* request answered 401 has made a refresh call by the time that answer has
\* been handled
C22_AsStated ==
  variant = "cookie" =>
    \A o \in Handlers :
      (\E i \in DOMAIN o.trail : o.trail[i] = [call |-> "/data", status |-> "401"]) =>
        Count(Issued(o), "/refresh") >= 1

\* the observed GET /data arrived while the slot held a result whose TTL had
\* not elapsed
ArrivedWhileCached ==
  req.op = "data" /\ prev.cachedSheet # "null" /\ prev.cacheExpires > req.at

\* C23, first part: a GET /data that arrives while a result is cached and its
\* TTL has not elapsed starts no upstream fetch
C23_NoFetchWhileCached ==
  (ArrivedWhileCached /\ req.at = now) => fetching \subseteq prev.fetching

\* C23, second part: at most one upstream fetch is started per TTL window, so
\* any two fetches in flight were started at least one TTL apart
C23_OneFetchPerWindow ==
  \A f, g \in fetching :
    (f # g /\ f.at <= g.at) => g.at - f.at >= SHEET_CACHE_TTL_MS

\* C23, third part: a GET /data answered 500 leaves the slot and its expiry
\* as they were
C23_FailureKeepsCache ==
  (req.op = "data" /\ res.status = 500) =>
    (cachedSheet = prev.cachedSheet /\ cacheExpires = prev.cacheExpires)

\* C23 (as stated)
C23_AsStated == C23_NoFetchWhileCached /\ C23_OneFetchPerWindow /\ C23_FailureKeepsCache

\* the token client has just run handleLogout from the button, had a refresh
\* call fail, or run the auto-logout callback
TokenLoggedOut == variant = "token" /\ (ev.what = "handleLogout" \/ RefreshFailed)
TokenExpired == variant = "token" /\ ev.what = "autoLogout"

\* C24, logout part: after an explicit logout and after a failed refresh the
\* token client's localStorage holds none of the three values
C24_LogoutDiscards == TokenLoggedOut => localStorage = EmptyStorage

\* C24 (as stated): the same after the auto-logout timer has fired
C24_AsStated == (TokenLoggedOut \/ TokenExpired) => localStorage = EmptyStorage

\* C25 (as stated): between continuations, a cookie client that is
\* authenticated has an expiry timer pending
C25_AsStated == (variant = "cookie" /\ isLoggedIn) => Pending(timers) # {}

\* a handler of the cookie client has just ended
OperationEnded == variant = "cookie" /\ ev.op # NoOp /\ ev.op.pc = "done"

\* C26, logout part: an explicit logout leaves no expiry timer pending
C26_LogoutLeavesNoTimer == (OperationEnded /\ ev.op.kind = "logout") => Pending(timers) = {}

\* C26 (as stated): when a handler of the cookie client ends with the client
\* logged out, no expiry timer is left pending
C26_AsStated == (OperationEnded /\ ~isLoggedIn) => Pending(timers) = {}

\* the observed request is a logout carrying the refresh_token cookie of a
\* browser that made every login so far: each login response overwrites the
\* cookie, so it is the credential of the last login
LogoutWithLastCredential ==
  req.op = "logout" /\ prev.nextRt > 1 /\ req.rt = prev.nextRt - 1

\* C27 (as stated): once the client's logout has reached the server, the
\* store holds no unexpired record created by any of its logins
C27_AsStated ==
  LogoutWithLastCredential =>
    \A k \in DOMAIN refreshTokenStore : refreshExpired(refreshTokenStore[k], now)

(* ---------------------------- specification --------------------------- *)
Next == Tick \/ Login \/ Refresh \/ Logout \/ DataBegin \/ DataComplete

Spec == Init /\ [][Next]_vars

NextClient ==
  \/ checkSessionAndLoad \/ checkSessionAndLoad_data \/ tryRefresh \/ checkSessionAndLoad_retry
  \/ handleLogin \/ handleLogin_login \/ handleLogin_data
  \/ handleLogout \/ handleLogout_finally
  \/ autoLogout \/ onSearchChange \/ handleSubmit
  \/ Token_expire \/ Token_checkSessionAndLoad \/ Token_handleLogin
  \/ Token_refreshToken \/ Token_apiFetch \/ Token_handleLogout

SpecClient == InitClient /\ [][NextClient]_vars
====
